---- MODULE Spec2Model ----
(***************************************************************************)
(* State-machine model of the StaffRegistry Soroban contract               *)
(* (soroban-contracts/staff-registry/src/lib.rs).                          *)
(*                                                                         *)
(* The contract storage is a record with one field per DataKey variant.    *)
(* A storage entry is an option: <<>> when the key is absent, <<v>> when   *)
(* it holds v.  Every entry point is an operator from the storage and the  *)
(* invocation's inputs to its outcome (the result and the storage it       *)
(* leaves), and one action applies it.  A panic aborts the invocation and  *)
(* the host rolls back its writes, so a panicking path returns the storage *)
(* it was given.  Events are not read back by the contract and are left    *)
(* out.                                                                    *)
(***************************************************************************)
EXTENDS Naturals, Sequences, FiniteSets

\* ---------------------------------------------------------------- bounds
NumAddresses == 2      \* identities 1..NumAddresses
MaxHash == 2           \* hashes 0..MaxHash, 0 standing for [0u8; 32]
MaxTime == 1           \* ledger timestamps 0..MaxTime
MaxStaffCount == 2     \* staff_count arguments 0..MaxStaffCount

Addresses == 1..NumAddresses
Hashes == 0..MaxHash
Times == 0..MaxTime
StaffCounts == 0..MaxStaffCount
AuthSets == SUBSET Addresses

\* BytesN::from_array(&env, &[0u8; 32])
zero_hash == 0

\* ------------------------------------------------------------- options
None == <<>>
Some(v) == <<v>>
is_some(o) == o # None
unwrap(o) == o[1]
unwrap_or(o, d) == IF o = None THEN d ELSE o[1]

\* ------------------------------------------------------ outcome of a call
Ok == "Ok"
NotInitialized == "NotInitialized"
AlreadyInitialized == "AlreadyInitialized"
Unauthorized == "Unauthorized"
AlreadyRegistered == "AlreadyRegistered"
AlreadyRecorded == "AlreadyRecorded"
InvalidHash == "InvalidHash"
InvalidStaffCount == "InvalidStaffCount"
NotFound == "NotFound"
UnwrapNone == "UnwrapNone"

VARIABLES
  storage,      \* the contract storage, one field per DataKey variant
  timestamp,    \* env.ledger().timestamp() of the latest invocation
  first_staff,  \* history: per hash, the first successful register_staff call
                \* (its hash, the owner it ran as, its ledger timestamp)
  first_batch,  \* history: per hash, the first successful record_payroll_batch
                \* call (its hash, owner, ledger timestamp and staff_count)
  revoked       \* history: hashes on which revoke_staff has succeeded

vars == <<storage, timestamp, first_staff, first_batch, revoked>>

\* Variant: the host accepts a call that anybody authorized.
require_auth_any(address, auth) == auth # {}

\* address.require_auth(): the host accepts iff the identity authorized the call.
require_auth(address, auth) == address \in auth

\* The outcome of an invocation: its result and the storage it leaves.
Outcome(result, st) == [result |-> result, storage |-> st]

\* A panic: the invocation's writes are rolled back.
panic(error, st) == Outcome(error, st)

\* A freshly deployed contract: no key is set.
Init ==
  /\ storage = [Owner |-> None,
                StaffRecord |-> [h \in Hashes |-> None],
                IsStaffRegistered |-> [h \in Hashes |-> None],
                PayrollBatch |-> [h \in Hashes |-> None],
                IsBatchRecorded |-> [h \in Hashes |-> None],
                AllStaffHashes |-> None,
                AllBatchHashes |-> None]
  /\ timestamp = 0
  /\ first_staff = [h \in Hashes |-> None]
  /\ first_batch = [h \in Hashes |-> None]
  /\ revoked = {}

\* ------------------------------------------------------------ entry points

\* Variant: no "already initialized" check.
initialize_overwrite(st, auth, new) ==
  IF ~require_auth(new, auth) THEN panic(Unauthorized, st)
  ELSE Outcome(Ok, [st EXCEPT !.Owner = Some(new),
                              !.AllStaffHashes = Some(<<>>),
                              !.AllBatchHashes = Some(<<>>)])

initialize(st, auth, new) ==
  IF is_some(st.Owner) THEN panic(AlreadyInitialized, st)
  ELSE IF ~require_auth(new, auth) THEN panic(Unauthorized, st)
  ELSE Outcome(Ok, [st EXCEPT !.Owner = Some(new),
                              !.AllStaffHashes = Some(<<>>),
                              !.AllBatchHashes = Some(<<>>)])

\* Variant: the registered flag is not written.
register_staff_flag_unset(st, auth, ts, staff_hash) ==
  IF ~is_some(st.Owner) THEN panic(NotInitialized, st)
  ELSE IF ~require_auth(unwrap(st.Owner), auth) THEN panic(Unauthorized, st)
  ELSE IF unwrap_or(st.IsStaffRegistered[staff_hash], FALSE)
    THEN panic(AlreadyRegistered, st)
  ELSE IF staff_hash = zero_hash THEN panic(InvalidHash, st)
  ELSE LET record == [staff_hash |-> staff_hash,
                      registered_by |-> unwrap(st.Owner),
                      registered_at |-> ts,
                      is_active |-> TRUE]
           all_staff == unwrap_or(st.AllStaffHashes, <<>>)
       IN Outcome(Ok, [st EXCEPT !.StaffRecord[staff_hash] = Some(record),
                                 !.AllStaffHashes = Some(Append(all_staff, staff_hash))])

\* Variant: the hash is not pushed onto allStaffHashes.
register_staff_no_push(st, auth, ts, staff_hash) ==
  IF ~is_some(st.Owner) THEN panic(NotInitialized, st)
  ELSE IF ~require_auth(unwrap(st.Owner), auth) THEN panic(Unauthorized, st)
  ELSE IF unwrap_or(st.IsStaffRegistered[staff_hash], FALSE)
    THEN panic(AlreadyRegistered, st)
  ELSE IF staff_hash = zero_hash THEN panic(InvalidHash, st)
  ELSE LET record == [staff_hash |-> staff_hash,
                      registered_by |-> unwrap(st.Owner),
                      registered_at |-> ts,
                      is_active |-> TRUE]
       IN Outcome(Ok, [st EXCEPT !.StaffRecord[staff_hash] = Some(record),
                                 !.IsStaffRegistered[staff_hash] = Some(TRUE)])

\* Variant: the staffNotRegistered check runs before the onlyOwner check.
register_staff_check_first(st, auth, ts, staff_hash) ==
  IF ~is_some(st.Owner) THEN panic(NotInitialized, st)
  ELSE IF unwrap_or(st.IsStaffRegistered[staff_hash], FALSE)
    THEN panic(AlreadyRegistered, st)
  ELSE IF ~require_auth(unwrap(st.Owner), auth) THEN panic(Unauthorized, st)
  ELSE IF staff_hash = zero_hash THEN panic(InvalidHash, st)
  ELSE LET record == [staff_hash |-> staff_hash,
                      registered_by |-> unwrap(st.Owner),
                      registered_at |-> ts,
                      is_active |-> TRUE]
           all_staff == unwrap_or(st.AllStaffHashes, <<>>)
       IN Outcome(Ok, [st EXCEPT !.StaffRecord[staff_hash] = Some(record),
                                 !.IsStaffRegistered[staff_hash] = Some(TRUE),
                                 !.AllStaffHashes = Some(Append(all_staff, staff_hash))])

\* Variant: no staffNotRegistered check.
register_staff_again(st, auth, ts, staff_hash) ==
  IF ~is_some(st.Owner) THEN panic(NotInitialized, st)
  ELSE IF ~require_auth(unwrap(st.Owner), auth) THEN panic(Unauthorized, st)
  ELSE IF staff_hash = zero_hash THEN panic(InvalidHash, st)
  ELSE LET record == [staff_hash |-> staff_hash,
                      registered_by |-> unwrap(st.Owner),
                      registered_at |-> ts,
                      is_active |-> TRUE]
           all_staff == unwrap_or(st.AllStaffHashes, <<>>)
       IN Outcome(Ok, [st EXCEPT !.StaffRecord[staff_hash] = Some(record),
                                 !.IsStaffRegistered[staff_hash] = Some(TRUE),
                                 !.AllStaffHashes =
                                    IF unwrap_or(st.IsStaffRegistered[staff_hash], FALSE)
                                    THEN st.AllStaffHashes
                                    ELSE Some(Append(all_staff, staff_hash))])

\* Variant: the new record is stored with is_active = false.
register_staff_inactive(st, auth, ts, staff_hash) ==
  IF ~is_some(st.Owner) THEN panic(NotInitialized, st)
  ELSE IF ~require_auth(unwrap(st.Owner), auth) THEN panic(Unauthorized, st)
  ELSE IF unwrap_or(st.IsStaffRegistered[staff_hash], FALSE)
    THEN panic(AlreadyRegistered, st)
  ELSE IF staff_hash = zero_hash THEN panic(InvalidHash, st)
  ELSE LET record == [staff_hash |-> staff_hash,
                      registered_by |-> unwrap(st.Owner),
                      registered_at |-> ts,
                      is_active |-> FALSE]
           all_staff == unwrap_or(st.AllStaffHashes, <<>>)
       IN Outcome(Ok, [st EXCEPT !.StaffRecord[staff_hash] = Some(record),
                                 !.IsStaffRegistered[staff_hash] = Some(TRUE),
                                 !.AllStaffHashes = Some(Append(all_staff, staff_hash))])

\* Variant: the hash is pushed at the front of allStaffHashes.
register_staff_push_front(st, auth, ts, staff_hash) ==
  IF ~is_some(st.Owner) THEN panic(NotInitialized, st)
  ELSE IF ~require_auth(unwrap(st.Owner), auth) THEN panic(Unauthorized, st)
  ELSE IF unwrap_or(st.IsStaffRegistered[staff_hash], FALSE)
    THEN panic(AlreadyRegistered, st)
  ELSE IF staff_hash = zero_hash THEN panic(InvalidHash, st)
  ELSE LET record == [staff_hash |-> staff_hash,
                      registered_by |-> unwrap(st.Owner),
                      registered_at |-> ts,
                      is_active |-> TRUE]
           all_staff == unwrap_or(st.AllStaffHashes, <<>>)
       IN Outcome(Ok, [st EXCEPT !.StaffRecord[staff_hash] = Some(record),
                                 !.IsStaffRegistered[staff_hash] = Some(TRUE),
                                 !.AllStaffHashes = Some(<<staff_hash>> \o all_staff)])

register_staff(st, auth, ts, staff_hash) ==
  IF ~is_some(st.Owner) THEN panic(NotInitialized, st)
  ELSE IF ~require_auth(unwrap(st.Owner), auth) THEN panic(Unauthorized, st)
  ELSE IF unwrap_or(st.IsStaffRegistered[staff_hash], FALSE)
    THEN panic(AlreadyRegistered, st)
  ELSE IF staff_hash = zero_hash THEN panic(InvalidHash, st)
  ELSE LET record == [staff_hash |-> staff_hash,
                      registered_by |-> unwrap(st.Owner),
                      registered_at |-> ts,
                      is_active |-> TRUE]
           all_staff == unwrap_or(st.AllStaffHashes, <<>>)
       IN Outcome(Ok, [st EXCEPT !.StaffRecord[staff_hash] = Some(record),
                                 !.IsStaffRegistered[staff_hash] = Some(TRUE),
                                 !.AllStaffHashes = Some(Append(all_staff, staff_hash))])

\* Variant: revoking also clears the registered flag.
revoke_staff_unregister(st, auth, staff_hash) ==
  IF ~is_some(st.Owner) THEN panic(NotInitialized, st)
  ELSE IF ~require_auth(unwrap(st.Owner), auth) THEN panic(Unauthorized, st)
  ELSE IF ~unwrap_or(st.IsStaffRegistered[staff_hash], FALSE)
    THEN panic(NotFound, st)
  ELSE IF ~is_some(st.StaffRecord[staff_hash]) THEN panic(UnwrapNone, st)
  ELSE LET record == [unwrap(st.StaffRecord[staff_hash]) EXCEPT !.is_active = FALSE]
       IN Outcome(Ok, [st EXCEPT !.StaffRecord[staff_hash] = Some(record),
                                 !.IsStaffRegistered[staff_hash] = Some(FALSE)])

\* Variant: revoking stores a record rebuilt for the revoking owner.
revoke_staff_rewrite(st, auth, staff_hash) ==
  IF ~is_some(st.Owner) THEN panic(NotInitialized, st)
  ELSE IF ~require_auth(unwrap(st.Owner), auth) THEN panic(Unauthorized, st)
  ELSE IF ~unwrap_or(st.IsStaffRegistered[staff_hash], FALSE)
    THEN panic(NotFound, st)
  ELSE IF ~is_some(st.StaffRecord[staff_hash]) THEN panic(UnwrapNone, st)
  ELSE LET record == [unwrap(st.StaffRecord[staff_hash]) EXCEPT
                        !.registered_by = unwrap(st.Owner), !.is_active = FALSE]
       IN Outcome(Ok, [st EXCEPT !.StaffRecord[staff_hash] = Some(record)])

\* Variant: revoking a record that is already inactive is an error.
revoke_staff_once(st, auth, staff_hash) ==
  IF ~is_some(st.Owner) THEN panic(NotInitialized, st)
  ELSE IF ~require_auth(unwrap(st.Owner), auth) THEN panic(Unauthorized, st)
  ELSE IF ~unwrap_or(st.IsStaffRegistered[staff_hash], FALSE)
    THEN panic(NotFound, st)
  ELSE IF ~is_some(st.StaffRecord[staff_hash]) THEN panic(UnwrapNone, st)
  ELSE IF ~unwrap(st.StaffRecord[staff_hash]).is_active THEN panic(NotFound, st)
  ELSE LET record == [unwrap(st.StaffRecord[staff_hash]) EXCEPT !.is_active = FALSE]
       IN Outcome(Ok, [st EXCEPT !.StaffRecord[staff_hash] = Some(record)])

revoke_staff(st, auth, staff_hash) ==
  IF ~is_some(st.Owner) THEN panic(NotInitialized, st)
  ELSE IF ~require_auth(unwrap(st.Owner), auth) THEN panic(Unauthorized, st)
  ELSE IF ~unwrap_or(st.IsStaffRegistered[staff_hash], FALSE)
    THEN panic(NotFound, st)
  ELSE IF ~is_some(st.StaffRecord[staff_hash]) THEN panic(UnwrapNone, st)
  ELSE LET record == [unwrap(st.StaffRecord[staff_hash]) EXCEPT !.is_active = FALSE]
       IN Outcome(Ok, [st EXCEPT !.StaffRecord[staff_hash] = Some(record)])

\* Variant: no zero-hash check.
record_payroll_batch_zero_ok(st, auth, ts, batch_hash, staff_count) ==
  IF ~is_some(st.Owner) THEN panic(NotInitialized, st)
  ELSE IF ~require_auth(unwrap(st.Owner), auth) THEN panic(Unauthorized, st)
  ELSE IF unwrap_or(st.IsBatchRecorded[batch_hash], FALSE)
    THEN panic(AlreadyRecorded, st)
  ELSE IF staff_count = 0 THEN panic(InvalidStaffCount, st)
  ELSE LET batch == [batch_hash |-> batch_hash,
                     uploaded_by |-> unwrap(st.Owner),
                     timestamp |-> ts,
                     staff_count |-> staff_count]
           all_batches == unwrap_or(st.AllBatchHashes, <<>>)
       IN Outcome(Ok, [st EXCEPT !.PayrollBatch[batch_hash] = Some(batch),
                                 !.IsBatchRecorded[batch_hash] = Some(TRUE),
                                 !.AllBatchHashes = Some(Append(all_batches, batch_hash))])

\* Variant: no batchNotRecorded check; a recorded batch is written again
\* (its hash is pushed only the first time).
record_payroll_batch_overwrite(st, auth, ts, batch_hash, staff_count) ==
  IF ~is_some(st.Owner) THEN panic(NotInitialized, st)
  ELSE IF ~require_auth(unwrap(st.Owner), auth) THEN panic(Unauthorized, st)
  ELSE IF batch_hash = zero_hash THEN panic(InvalidHash, st)
  ELSE IF staff_count = 0 THEN panic(InvalidStaffCount, st)
  ELSE LET batch == [batch_hash |-> batch_hash,
                     uploaded_by |-> unwrap(st.Owner),
                     timestamp |-> ts,
                     staff_count |-> staff_count]
           all_batches == unwrap_or(st.AllBatchHashes, <<>>)
       IN Outcome(Ok, [st EXCEPT !.PayrollBatch[batch_hash] = Some(batch),
                                 !.IsBatchRecorded[batch_hash] = Some(TRUE),
                                 !.AllBatchHashes =
                                    IF unwrap_or(st.IsBatchRecorded[batch_hash], FALSE)
                                    THEN st.AllBatchHashes
                                    ELSE Some(Append(all_batches, batch_hash))])

\* Variant: the staff_count check runs after the writes, which stay.
record_payroll_batch_late_check(st, auth, ts, batch_hash, staff_count) ==
  IF ~is_some(st.Owner) THEN panic(NotInitialized, st)
  ELSE IF ~require_auth(unwrap(st.Owner), auth) THEN panic(Unauthorized, st)
  ELSE IF unwrap_or(st.IsBatchRecorded[batch_hash], FALSE)
    THEN panic(AlreadyRecorded, st)
  ELSE IF batch_hash = zero_hash THEN panic(InvalidHash, st)
  ELSE LET batch == [batch_hash |-> batch_hash,
                     uploaded_by |-> unwrap(st.Owner),
                     timestamp |-> ts,
                     staff_count |-> staff_count]
           all_batches == unwrap_or(st.AllBatchHashes, <<>>)
           written == [st EXCEPT !.PayrollBatch[batch_hash] = Some(batch),
                                 !.IsBatchRecorded[batch_hash] = Some(TRUE),
                                 !.AllBatchHashes = Some(Append(all_batches, batch_hash))]
       IN IF staff_count = 0 THEN Outcome(InvalidStaffCount, written)
          ELSE Outcome(Ok, written)

\* Variant: no staff_count check.
record_payroll_batch_any_count(st, auth, ts, batch_hash, staff_count) ==
  IF ~is_some(st.Owner) THEN panic(NotInitialized, st)
  ELSE IF ~require_auth(unwrap(st.Owner), auth) THEN panic(Unauthorized, st)
  ELSE IF unwrap_or(st.IsBatchRecorded[batch_hash], FALSE)
    THEN panic(AlreadyRecorded, st)
  ELSE IF batch_hash = zero_hash THEN panic(InvalidHash, st)
  ELSE LET batch == [batch_hash |-> batch_hash,
                     uploaded_by |-> unwrap(st.Owner),
                     timestamp |-> ts,
                     staff_count |-> staff_count]
           all_batches == unwrap_or(st.AllBatchHashes, <<>>)
       IN Outcome(Ok, [st EXCEPT !.PayrollBatch[batch_hash] = Some(batch),
                                 !.IsBatchRecorded[batch_hash] = Some(TRUE),
                                 !.AllBatchHashes = Some(Append(all_batches, batch_hash))])

\* Variant: no batchNotRecorded check; the hash is pushed every time.
record_payroll_batch_repush(st, auth, ts, batch_hash, staff_count) ==
  IF ~is_some(st.Owner) THEN panic(NotInitialized, st)
  ELSE IF ~require_auth(unwrap(st.Owner), auth) THEN panic(Unauthorized, st)
  ELSE IF batch_hash = zero_hash THEN panic(InvalidHash, st)
  ELSE IF staff_count = 0 THEN panic(InvalidStaffCount, st)
  ELSE LET batch == [batch_hash |-> batch_hash,
                     uploaded_by |-> unwrap(st.Owner),
                     timestamp |-> ts,
                     staff_count |-> staff_count]
           all_batches == unwrap_or(st.AllBatchHashes, <<>>)
       IN Outcome(Ok, [st EXCEPT !.PayrollBatch[batch_hash] = Some(batch),
                                 !.IsBatchRecorded[batch_hash] = Some(TRUE),
                                 !.AllBatchHashes = Some(Append(all_batches, batch_hash))])

\* Variant: the staff_count check runs before the batchNotRecorded check.
record_payroll_batch_count_first(st, auth, ts, batch_hash, staff_count) ==
  IF ~is_some(st.Owner) THEN panic(NotInitialized, st)
  ELSE IF ~require_auth(unwrap(st.Owner), auth) THEN panic(Unauthorized, st)
  ELSE IF staff_count = 0 THEN panic(InvalidStaffCount, st)
  ELSE IF unwrap_or(st.IsBatchRecorded[batch_hash], FALSE)
    THEN panic(AlreadyRecorded, st)
  ELSE IF batch_hash = zero_hash THEN panic(InvalidHash, st)
  ELSE LET batch == [batch_hash |-> batch_hash,
                     uploaded_by |-> unwrap(st.Owner),
                     timestamp |-> ts,
                     staff_count |-> staff_count]
           all_batches == unwrap_or(st.AllBatchHashes, <<>>)
       IN Outcome(Ok, [st EXCEPT !.PayrollBatch[batch_hash] = Some(batch),
                                 !.IsBatchRecorded[batch_hash] = Some(TRUE),
                                 !.AllBatchHashes = Some(Append(all_batches, batch_hash))])

record_payroll_batch(st, auth, ts, batch_hash, staff_count) ==
  IF ~is_some(st.Owner) THEN panic(NotInitialized, st)
  ELSE IF ~require_auth(unwrap(st.Owner), auth) THEN panic(Unauthorized, st)
  ELSE IF unwrap_or(st.IsBatchRecorded[batch_hash], FALSE)
    THEN panic(AlreadyRecorded, st)
  ELSE IF batch_hash = zero_hash THEN panic(InvalidHash, st)
  ELSE IF staff_count = 0 THEN panic(InvalidStaffCount, st)
  ELSE LET batch == [batch_hash |-> batch_hash,
                     uploaded_by |-> unwrap(st.Owner),
                     timestamp |-> ts,
                     staff_count |-> staff_count]
           all_batches == unwrap_or(st.AllBatchHashes, <<>>)
       IN Outcome(Ok, [st EXCEPT !.PayrollBatch[batch_hash] = Some(batch),
                                 !.IsBatchRecorded[batch_hash] = Some(TRUE),
                                 !.AllBatchHashes = Some(Append(all_batches, batch_hash))])

\* Variant: the new owner's authorization is not required.
transfer_ownership_push(st, auth, new_owner) ==
  IF ~is_some(st.Owner) THEN panic(NotInitialized, st)
  ELSE IF ~require_auth(unwrap(st.Owner), auth) THEN panic(Unauthorized, st)
  ELSE Outcome(Ok, [st EXCEPT !.Owner = Some(new_owner)])

\* Variant: with no owner stored, the new owner is stored all the same.
transfer_ownership_uninit(st, auth, new_owner) ==
  IF is_some(st.Owner) /\ ~require_auth(unwrap(st.Owner), auth)
    THEN panic(Unauthorized, st)
  ELSE IF ~require_auth(new_owner, auth) THEN panic(Unauthorized, st)
  ELSE Outcome(Ok, [st EXCEPT !.Owner = Some(new_owner)])

transfer_ownership(st, auth, new_owner) ==
  IF ~is_some(st.Owner) THEN panic(NotInitialized, st)
  ELSE IF ~require_auth(unwrap(st.Owner), auth) THEN panic(Unauthorized, st)
  ELSE IF ~require_auth(new_owner, auth) THEN panic(Unauthorized, st)
  ELSE Outcome(Ok, [st EXCEPT !.Owner = Some(new_owner)])

\* ------------------------------------------------------- read-only queries
\* A query returns a value or panics; it writes nothing.
Returns(v) == [result |-> Ok, value |-> Some(v)]
Panics(e) == [result |-> e, value |-> None]

owner(st) ==
  IF is_some(st.Owner) THEN Returns(unwrap(st.Owner)) ELSE Panics(NotInitialized)

\* Variant: the record is unwrapped without looking at the registered flag.
is_staff_active_unchecked(st, staff_hash) ==
  IF ~is_some(st.StaffRecord[staff_hash]) THEN Panics(UnwrapNone)
  ELSE Returns(unwrap(st.StaffRecord[staff_hash]).is_active)

is_staff_active(st, staff_hash) ==
  IF ~unwrap_or(st.IsStaffRegistered[staff_hash], FALSE) THEN Returns(FALSE)
  ELSE IF ~is_some(st.StaffRecord[staff_hash]) THEN Panics(UnwrapNone)
  ELSE Returns(unwrap(st.StaffRecord[staff_hash]).is_active)

get_staff_record(st, staff_hash) ==
  IF ~unwrap_or(st.IsStaffRegistered[staff_hash], FALSE) THEN Panics(NotFound)
  ELSE IF ~is_some(st.StaffRecord[staff_hash]) THEN Panics(UnwrapNone)
  ELSE Returns(unwrap(st.StaffRecord[staff_hash]))

get_payroll_batch(st, batch_hash) ==
  IF ~unwrap_or(st.IsBatchRecorded[batch_hash], FALSE) THEN Panics(NotFound)
  ELSE IF ~is_some(st.PayrollBatch[batch_hash]) THEN Panics(UnwrapNone)
  ELSE Returns(unwrap(st.PayrollBatch[batch_hash]))

is_staff_registered(st, staff_hash) == unwrap_or(st.IsStaffRegistered[staff_hash], FALSE)

is_batch_recorded(st, batch_hash) == unwrap_or(st.IsBatchRecorded[batch_hash], FALSE)

get_total_staff(st) == Len(unwrap_or(st.AllStaffHashes, <<>>))

get_total_batches(st) == Len(unwrap_or(st.AllBatchHashes, <<>>))

\* ----------------------------------------------------------------- actions
\* The host serializes invocations; each runs at a ledger timestamp that is
\* not before the previous one.
LaterTimes == {t \in Times : t >= timestamp}

Initialize ==
  \E auth \in AuthSets, ts \in LaterTimes, new \in Addresses :
    /\ storage' = initialize(storage, auth, new).storage
    /\ timestamp' = ts
    /\ UNCHANGED <<first_staff, first_batch, revoked>>

RegisterStaff ==
  \E auth \in AuthSets, ts \in LaterTimes, h \in Hashes :
    LET out == register_staff(storage, auth, ts, h) IN
    /\ storage' = out.storage
    /\ timestamp' = ts
    /\ first_staff' =
         IF out.result = Ok /\ first_staff[h] = None
         THEN [first_staff EXCEPT ![h] = Some([staff_hash |-> h,
                                               registered_by |-> unwrap(storage.Owner),
                                               registered_at |-> ts])]
         ELSE first_staff
    /\ UNCHANGED <<first_batch, revoked>>

RevokeStaff ==
  \E auth \in AuthSets, ts \in LaterTimes, h \in Hashes :
    LET out == revoke_staff(storage, auth, h) IN
    /\ storage' = out.storage
    /\ timestamp' = ts
    /\ revoked' = IF out.result = Ok THEN revoked \cup {h} ELSE revoked
    /\ UNCHANGED <<first_staff, first_batch>>

RecordPayrollBatch ==
  \E auth \in AuthSets, ts \in LaterTimes, h \in Hashes, n \in StaffCounts :
    LET out == record_payroll_batch(storage, auth, ts, h, n) IN
    /\ storage' = out.storage
    /\ timestamp' = ts
    /\ first_batch' =
         IF out.result = Ok /\ first_batch[h] = None
         THEN [first_batch EXCEPT ![h] = Some([batch_hash |-> h,
                                               uploaded_by |-> unwrap(storage.Owner),
                                               timestamp |-> ts,
                                               staff_count |-> n])]
         ELSE first_batch
    /\ UNCHANGED <<first_staff, revoked>>

TransferOwnership ==
  \E auth \in AuthSets, ts \in LaterTimes, new_owner \in Addresses :
    /\ storage' = transfer_ownership(storage, auth, new_owner).storage
    /\ timestamp' = ts
    /\ UNCHANGED <<first_staff, first_batch, revoked>>

Next ==
  \/ Initialize
  \/ RegisterStaff
  \/ RevokeStaff
  \/ RecordPayrollBatch
  \/ TransferOwnership

Spec == Init /\ [][Next]_vars

\* ------------------------------------------------------------------ claims
\* The stored owner; only read where an owner is stored.
stored_owner == unwrap(storage.Owner)

\* The hashes a list holds.
Elements(seq) == {seq[i] : i \in 1..Len(seq)}

\* C1: in both ledgers a record is stored under H iff the flag of H is true,
\* and the stored record's own hash field is H.
C1_RecordIffFlag ==
  \A h \in Hashes :
    /\ is_some(storage.StaffRecord[h]) <=> is_staff_registered(storage, h)
    /\ is_some(storage.StaffRecord[h]) =>
         unwrap(storage.StaffRecord[h]).staff_hash = h
    /\ is_some(storage.PayrollBatch[h]) <=> is_batch_recorded(storage, h)
    /\ is_some(storage.PayrollBatch[h]) =>
         unwrap(storage.PayrollBatch[h]).batch_hash = h

\* C1 witness: a staff record and a batch are stored while another hash of each
\* ledger has neither record nor flag.
C1_Witness ==
  /\ \E h \in Hashes : is_some(storage.StaffRecord[h])
  /\ \E h \in Hashes : is_some(storage.PayrollBatch[h])
  /\ \E h \in Hashes \ {zero_hash} : ~is_staff_registered(storage, h)
  /\ \E h \in Hashes \ {zero_hash} : ~is_batch_recorded(storage, h)

\* C2: get_total_staff() is the number of distinct hashes whose registered flag
\* is true, and get_total_batches() the number whose recorded flag is true.
C2_CountConsistency ==
  /\ get_total_staff(storage) =
       Cardinality({h \in Hashes : is_staff_registered(storage, h)})
  /\ get_total_batches(storage) =
       Cardinality({h \in Hashes : is_batch_recorded(storage, h)})

\* C2 witness: two staff hashes registered (one of them revoked) and a batch
\* recorded.
C2_Witness ==
  /\ get_total_staff(storage) = 2
  /\ get_total_batches(storage) >= 1
  /\ revoked # {}

\* C3: register_staff, revoke_staff, record_payroll_batch and
\* transfer_ownership, called without the stored owner's authorization, fail
\* with Unauthorized and leave the storage as it was, whatever the arguments
\* and whatever the state of the targeted hash.
C3_AuthorizationGate ==
  is_some(storage.Owner) =>
    \A auth \in AuthSets :
      ~require_auth(stored_owner, auth) =>
        /\ \A ts \in Times, h \in Hashes :
             register_staff(storage, auth, ts, h) = Outcome(Unauthorized, storage)
        /\ \A h \in Hashes :
             revoke_staff(storage, auth, h) = Outcome(Unauthorized, storage)
        /\ \A ts \in Times, h \in Hashes, n \in StaffCounts :
             record_payroll_batch(storage, auth, ts, h, n)
               = Outcome(Unauthorized, storage)
        /\ \A new_owner \in Addresses :
             transfer_ownership(storage, auth, new_owner)
               = Outcome(Unauthorized, storage)

\* C3 witness: an initialized registry holding an active and a revoked staff
\* hash and a recorded batch, in which a call authorized by somebody else than
\* the owner is turned away.
C3_Witness ==
  /\ is_some(storage.Owner)
  /\ \E h \in Hashes : is_staff_active(storage, h) = Returns(TRUE)
  /\ \E h \in revoked : is_staff_active(storage, h) = Returns(FALSE)
  /\ \E h \in Hashes : is_batch_recorded(storage, h)
  /\ \E auth \in AuthSets, h \in Hashes :
       /\ auth # {}
       /\ is_staff_registered(storage, h)
       /\ register_staff(storage, auth, timestamp, h).result = Unauthorized

\* C4: once register_staff(H) has succeeded, no later register_staff(H)
\* succeeds, whatever happened in between; authorized by the current owner it
\* fails with AlreadyRegistered.
C4_RegisterOnce ==
  \A h \in Hashes :
    is_some(first_staff[h]) =>
      \A auth \in AuthSets, ts \in Times :
        LET out == register_staff(storage, auth, ts, h) IN
        /\ out.result # Ok
        /\ (is_some(storage.Owner) /\ require_auth(stored_owner, auth))
             => out.result = AlreadyRegistered

\* C4 witness: a hash registered by a former owner and since revoked, which
\* the current owner tries to register again.
C4_Witness ==
  \E h \in revoked :
    /\ is_some(first_staff[h])
    /\ unwrap(first_staff[h]).registered_by # stored_owner
    /\ register_staff(storage, {stored_owner}, timestamp, h).result
         = AlreadyRegistered

\* C5: once an owner is stored, every initialize call fails with
\* AlreadyInitialized and leaves the owner, the records, the flags and both
\* lists as they were.
C5_InitializeOnce ==
  is_some(storage.Owner) =>
    \A auth \in AuthSets, new \in Addresses :
      initialize(storage, auth, new) = Outcome(AlreadyInitialized, storage)

\* C5 witness: after registrations and an ownership transfer, with both lists
\* non-empty, a fully authorized initialize is rejected.
C5_Witness ==
  /\ is_some(storage.Owner)
  /\ get_total_staff(storage) > 0
  /\ get_total_batches(storage) > 0
  /\ \E h \in Hashes :
       /\ is_some(first_staff[h])
       /\ unwrap(first_staff[h]).registered_by # stored_owner
  /\ initialize(storage, Addresses, stored_owner).result = AlreadyInitialized
\* C6: after register_staff(H) and revoke_staff(H) have both succeeded, H is
\* still registered and inactive, and get_staff_record(H) returns the hash,
\* owner and timestamp of the registration with is_active = false;
\* revoke_staff changes neither the registered flags nor allStaffHashes.
C6_RevokeKeepsRecord ==
  /\ \A h \in revoked :
       /\ is_some(first_staff[h])
       /\ is_staff_registered(storage, h)
       /\ is_staff_active(storage, h) = Returns(FALSE)
       /\ get_staff_record(storage, h) =
            Returns([staff_hash |-> unwrap(first_staff[h]).staff_hash,
                     registered_by |-> unwrap(first_staff[h]).registered_by,
                     registered_at |-> unwrap(first_staff[h]).registered_at,
                     is_active |-> FALSE])
  /\ \A auth \in AuthSets, h \in Hashes :
       LET out == revoke_staff(storage, auth, h) IN
       /\ out.storage.IsStaffRegistered = storage.IsStaffRegistered
       /\ out.storage.AllStaffHashes = storage.AllStaffHashes

\* C6 witness: a hash registered at an earlier ledger timestamp by a former
\* owner has been revoked, and another hash is registered and still active.
C6_Witness ==
  \E h \in revoked :
    /\ unwrap(first_staff[h]).registered_by # stored_owner
    /\ unwrap(first_staff[h]).registered_at < timestamp
    /\ get_staff_record(storage, h).result = Ok
    /\ \E g \in Hashes \ {h} : is_staff_active(storage, g) = Returns(TRUE)

\* C7: a transfer_ownership(B) authorized by the owner A and by B succeeds
\* and stores B; register_staff, revoke_staff and record_payroll_batch do not
\* change the stored owner; and while B is the stored owner these three calls
\* succeed only with B's authorization, and authorized by another identity A
\* alone they fail with Unauthorized and change nothing.
C7_TransferMovesTheGate ==
  is_some(storage.Owner) =>
    /\ \A B \in Addresses \ {stored_owner}, auth \in AuthSets :
         ({stored_owner, B} \subseteq auth) =>
           LET out == transfer_ownership(storage, auth, B) IN
           /\ out.result = Ok
           /\ out.storage.Owner = Some(B)
    /\ \A auth \in AuthSets, ts \in Times, h \in Hashes, n \in StaffCounts :
         LET reg == register_staff(storage, auth, ts, h)
             rev == revoke_staff(storage, auth, h)
             rec == record_payroll_batch(storage, auth, ts, h, n)
         IN /\ reg.storage.Owner = storage.Owner
            /\ rev.storage.Owner = storage.Owner
            /\ rec.storage.Owner = storage.Owner
            /\ (reg.result = Ok \/ rev.result = Ok \/ rec.result = Ok)
                 => stored_owner \in auth
            /\ (\E A \in Addresses \ {stored_owner} : auth = {A}) =>
                 /\ reg = Outcome(Unauthorized, storage)
                 /\ rev = Outcome(Unauthorized, storage)
                 /\ rec = Outcome(Unauthorized, storage)

\* C7 witness: the owner has changed from A to B (A's registration is on
\* record, B has registered and recorded since), and A alone is turned away
\* where B succeeds.
C7_Witness ==
  \E h \in Hashes, g \in Hashes, b \in Hashes :
    /\ is_some(first_staff[h]) /\ is_some(first_staff[g]) /\ is_some(first_batch[b])
    /\ unwrap(first_staff[h]).registered_by # stored_owner
    /\ unwrap(first_staff[g]).registered_by = stored_owner
    /\ unwrap(first_batch[b]).uploaded_by = stored_owner
    /\ revoke_staff(storage, {unwrap(first_staff[h]).registered_by}, g).result
         = Unauthorized
    /\ revoke_staff(storage, {stored_owner}, g).result = Ok

\* C8: transfer_ownership(new_owner) succeeds exactly when the stored owner
\* and new_owner both authorize it; otherwise it fails with Unauthorized and
\* changes nothing; on success the stored owner becomes new_owner and every
\* record, flag and list stays as it was.
C8_TransferOwnership ==
  is_some(storage.Owner) =>
    \A auth \in AuthSets, new_owner \in Addresses :
      LET out == transfer_ownership(storage, auth, new_owner) IN
      IF require_auth(stored_owner, auth) /\ require_auth(new_owner, auth)
      THEN /\ out.result = Ok
           /\ out.storage.Owner = Some(new_owner)
           /\ out.storage.StaffRecord = storage.StaffRecord
           /\ out.storage.IsStaffRegistered = storage.IsStaffRegistered
           /\ out.storage.AllStaffHashes = storage.AllStaffHashes
           /\ out.storage.PayrollBatch = storage.PayrollBatch
           /\ out.storage.IsBatchRecorded = storage.IsBatchRecorded
           /\ out.storage.AllBatchHashes = storage.AllBatchHashes
      ELSE out = Outcome(Unauthorized, storage)

\* C8 witness: after a transfer the former owner's staff record and batch are
\* still stored under the former owner's name.
C8_Witness ==
  \E h \in Hashes, b \in Hashes :
    /\ get_staff_record(storage, h).result = Ok
    /\ unwrap(storage.StaffRecord[h]).registered_by # stored_owner
    /\ get_payroll_batch(storage, b).result = Ok
    /\ unwrap(storage.PayrollBatch[b]).uploaded_by # stored_owner
    /\ transfer_ownership(storage, {stored_owner}, 
                          unwrap(storage.StaffRecord[h]).registered_by).result
         = Unauthorized

\* C9: on an initialized registry an owner-authorized register_staff(0) and
\* record_payroll_batch(0, n) fail with InvalidHash for every n; the zero hash
\* is never flagged and is in neither list.
C9_ZeroHashRejected ==
  /\ is_some(storage.Owner) =>
       \A auth \in AuthSets, ts \in Times, n \in StaffCounts :
         require_auth(stored_owner, auth) =>
           /\ register_staff(storage, auth, ts, zero_hash).result = InvalidHash
           /\ record_payroll_batch(storage, auth, ts, zero_hash, n).result
                = InvalidHash
  /\ ~is_staff_registered(storage, zero_hash)
  /\ ~is_batch_recorded(storage, zero_hash)
  /\ zero_hash \notin Elements(unwrap_or(storage.AllStaffHashes, <<>>))
  /\ zero_hash \notin Elements(unwrap_or(storage.AllBatchHashes, <<>>))

\* C9 witness: with every other hash registered and recorded, the owner's
\* calls on the zero hash are rejected, also with staff_count 0.
C9_Witness ==
  /\ is_some(storage.Owner)
  /\ \A h \in Hashes \ {zero_hash} :
       is_staff_registered(storage, h) /\ is_batch_recorded(storage, h)
  /\ register_staff(storage, {stored_owner}, timestamp, zero_hash).result
       = InvalidHash
  /\ record_payroll_batch(storage, {stored_owner}, timestamp, zero_hash, 0).result
       = InvalidHash

\* C10: once record_payroll_batch(H, n) has succeeded, H stays recorded and
\* get_payroll_batch(H) returns the hash, owner, timestamp and staff_count of
\* that call; an owner-authorized record_payroll_batch(H, m) fails with
\* AlreadyRecorded for every m; and no call of any entry point changes the
\* batch or its flag.
C10_BatchImmutable ==
  \A h \in Hashes :
    is_some(first_batch[h]) =>
      LET Kept(out) ==
            /\ out.storage.PayrollBatch[h] = storage.PayrollBatch[h]
            /\ out.storage.IsBatchRecorded[h] = storage.IsBatchRecorded[h]
      IN
      /\ is_batch_recorded(storage, h)
      /\ get_payroll_batch(storage, h) = Returns(unwrap(first_batch[h]))
      /\ \A auth \in AuthSets :
           /\ \A ts \in Times, m \in StaffCounts :
                (is_some(storage.Owner) /\ require_auth(stored_owner, auth)) =>
                  record_payroll_batch(storage, auth, ts, h, m).result
                    = AlreadyRecorded
           /\ \A ts \in Times, g \in Hashes, m \in StaffCounts :
                Kept(record_payroll_batch(storage, auth, ts, g, m))
           /\ \A ts \in Times, g \in Hashes :
                Kept(register_staff(storage, auth, ts, g))
           /\ \A g \in Hashes : Kept(revoke_staff(storage, auth, g))
           /\ \A a \in Addresses :
                /\ Kept(transfer_ownership(storage, auth, a))
                /\ Kept(initialize(storage, auth, a))

\* C10 witness: a batch recorded by a former owner at an earlier timestamp;
\* the same hash has since been registered as staff and revoked, and the
\* current owner's attempt to record it with another staff_count is rejected.
C10_Witness ==
  \E h \in revoked, m \in StaffCounts :
    /\ is_some(first_batch[h])
    /\ unwrap(first_batch[h]).uploaded_by # stored_owner
    /\ unwrap(first_batch[h]).timestamp < timestamp
    /\ m # unwrap(first_batch[h]).staff_count
    /\ record_payroll_batch(storage, {stored_owner}, timestamp, h, m).result
         = AlreadyRecorded
\* Every invocation the host can make on the current storage: the entry
\* point, the hash it targets (0 where it takes none) and its outcome.
Invocations ==
  {[op |-> "initialize", hash |-> 0, out |-> initialize(storage, auth, a)] :
     auth \in AuthSets, a \in Addresses}
  \cup
  {[op |-> "register_staff", hash |-> h, out |-> register_staff(storage, auth, ts, h)] :
     auth \in AuthSets, ts \in Times, h \in Hashes}
  \cup
  {[op |-> "revoke_staff", hash |-> h, out |-> revoke_staff(storage, auth, h)] :
     auth \in AuthSets, h \in Hashes}
  \cup
  UNION {{[op |-> "record_payroll_batch", hash |-> h,
           out |-> record_payroll_batch(storage, auth, ts, h, n)] :
            auth \in AuthSets, ts \in Times, h \in Hashes} : n \in StaffCounts}
  \cup
  {[op |-> "transfer_ownership", hash |-> 0,
    out |-> transfer_ownership(storage, auth, a)] :
     auth \in AuthSets, a \in Addresses}

\* C11: an invocation that fails, with whatever error, leaves the whole
\* storage (owner, records, flags, lists) as it was.
C11_FailureIsAtomic ==
  \A c \in Invocations : c.out.result # Ok => c.out.storage = storage

\* C11 witness: a registry with a registered staff hash and a recorded batch
\* on which invocations fail with each of AlreadyInitialized, Unauthorized,
\* InvalidHash, InvalidStaffCount, AlreadyRegistered, AlreadyRecorded and
\* NotFound.
C11_Witness ==
  /\ get_total_staff(storage) > 0
  /\ get_total_batches(storage) > 0
  /\ {AlreadyInitialized, Unauthorized, InvalidHash, InvalidStaffCount,
      AlreadyRegistered, AlreadyRecorded, NotFound}
       \subseteq {c.out.result : c \in Invocations}

\* Nothing has been written to either ledger.
LedgersEmpty(st) ==
  /\ \A h \in Hashes :
       /\ ~is_some(st.StaffRecord[h]) /\ ~is_staff_registered(st, h)
       /\ ~is_some(st.PayrollBatch[h]) /\ ~is_batch_recorded(st, h)
  /\ get_total_staff(st) = 0
  /\ get_total_batches(st) = 0

\* C12: while no owner is stored, get_owner fails with NotInitialized and
\* register_staff, revoke_staff, record_payroll_batch and transfer_ownership
\* fail with NotInitialized and change nothing; so a registry with any flag,
\* record or list element has an owner stored.
C12_NothingBeforeInitialize ==
  /\ ~is_some(storage.Owner) =>
       /\ owner(storage) = Panics(NotInitialized)
       /\ \A c \in Invocations :
            c.op # "initialize" => c.out = Outcome(NotInitialized, storage)
  /\ ~LedgersEmpty(storage) => is_some(storage.Owner)

\* C12 witness: the ledger has moved on (invocations were made) and still no
\* owner is stored; an authorized register_staff is turned away.
C12_Witness ==
  /\ ~is_some(storage.Owner)
  /\ timestamp > 0
  /\ register_staff(storage, Addresses, timestamp, 1).result = NotInitialized

\* The state of a staff hash as the queries show it.
StaffState(st, h) ==
  IF ~is_staff_registered(st, h) THEN "Unregistered"
  ELSE IF is_staff_active(st, h) = Returns(TRUE) THEN "Active"
  ELSE IF is_staff_active(st, h) = Returns(FALSE) THEN "Inactive"
  ELSE "Broken"

\* C13: the state of a staff hash H changes only from Unregistered to Active,
\* by a successful register_staff(H), and from Active to Inactive, by a
\* successful revoke_staff(H); an inactive record is one that was revoked,
\* and it never becomes active again.
C13_StaffStateMachine ==
  /\ \A h \in Hashes :
       /\ StaffState(storage, h) \in {"Unregistered", "Active", "Inactive"}
       /\ StaffState(storage, h) = "Inactive" => h \in revoked
  /\ \A c \in Invocations, h \in Hashes :
       LET from == StaffState(storage, h)
           to == StaffState(c.out.storage, h)
       IN \/ to = from
          \/ /\ from = "Unregistered" /\ to = "Active"
             /\ c.op = "register_staff" /\ c.hash = h /\ c.out.result = Ok
          \/ /\ from = "Active" /\ to = "Inactive"
             /\ c.op = "revoke_staff" /\ c.hash = h /\ c.out.result = Ok

\* C13 witness: one hash is inactive after its revocation under a later
\* owner, another is active, and the owner's register_staff on the inactive
\* one does not bring it back.
C13_Witness ==
  \E h \in Hashes, g \in Hashes :
    /\ StaffState(storage, h) = "Inactive"
    /\ StaffState(storage, g) = "Active"
    /\ unwrap(first_staff[h]).registered_by # stored_owner
    /\ StaffState(register_staff(storage, {stored_owner}, timestamp, h).storage, h)
         = "Inactive"

\* C14: an owner-authorized record_payroll_batch(H, 0), H non-zero and not
\* recorded, fails with InvalidStaffCount and writes nothing: H stays
\* unrecorded and get_total_batches() is unchanged; no stored batch has
\* staff_count 0.
C14_ZeroStaffCountRejected ==
  /\ is_some(storage.Owner) =>
       \A auth \in AuthSets, ts \in Times, h \in Hashes \ {zero_hash} :
         (require_auth(stored_owner, auth) /\ ~is_batch_recorded(storage, h)) =>
           LET out == record_payroll_batch(storage, auth, ts, h, 0) IN
           /\ out.result = InvalidStaffCount
           /\ out.storage = storage
           /\ ~is_batch_recorded(out.storage, h)
           /\ get_total_batches(out.storage) = get_total_batches(storage)
  /\ \A h \in Hashes :
       is_some(storage.PayrollBatch[h]) =>
         unwrap(storage.PayrollBatch[h]).staff_count > 0

\* C14 witness: with one batch on record, the owner's recording of another,
\* unrecorded hash with staff_count 0 is rejected.
C14_Witness ==
  \E h \in Hashes \ {zero_hash} :
    /\ get_total_batches(storage) = 1
    /\ ~is_batch_recorded(storage, h)
    /\ record_payroll_batch(storage, {stored_owner}, timestamp, h, 0).result
         = InvalidStaffCount

\* C15: an owner-authorized register_staff(H) on a non-zero unregistered H
\* succeeds and leaves H registered and active and get_total_staff() one
\* higher; an owner-authorized record_payroll_batch(H, n), n > 0, on a
\* non-zero unrecorded H succeeds and leaves H recorded and
\* get_total_batches() one higher; on a registry just initialized both
\* totals are 0 and the first create makes its total 1.
C15_CreateEffect ==
  /\ is_some(storage.Owner) =>
       \A auth \in AuthSets, ts \in Times, h \in Hashes \ {zero_hash} :
         require_auth(stored_owner, auth) =>
           /\ ~is_staff_registered(storage, h) =>
                LET out == register_staff(storage, auth, ts, h) IN
                /\ out.result = Ok
                /\ is_staff_registered(out.storage, h)
                /\ is_staff_active(out.storage, h) = Returns(TRUE)
                /\ get_total_staff(out.storage) = get_total_staff(storage) + 1
           /\ ~is_batch_recorded(storage, h) =>
                \A n \in StaffCounts \ {0} :
                  LET out == record_payroll_batch(storage, auth, ts, h, n) IN
                  /\ out.result = Ok
                  /\ is_batch_recorded(out.storage, h)
                  /\ get_total_batches(out.storage) = get_total_batches(storage) + 1
  /\ ~is_some(storage.Owner) =>
       \A a \in Addresses, ts \in Times, h \in Hashes \ {zero_hash} :
         LET fresh == initialize(storage, {a}, a).storage IN
         /\ get_total_staff(fresh) = 0
         /\ get_total_batches(fresh) = 0
         /\ get_total_staff(register_staff(fresh, {a}, ts, h).storage) = 1
         /\ get_total_batches(record_payroll_batch(fresh, {a}, ts, h, 1).storage) = 1

\* C15 witness: a registry holding one staff hash and one batch, on which the
\* owner's register_staff and record_payroll_batch of a second hash succeed.
C15_Witness ==
  \E h \in Hashes, b \in Hashes :
    /\ get_total_staff(storage) = 1
    /\ get_total_batches(storage) = 1
    /\ register_staff(storage, {stored_owner}, timestamp, h).result = Ok
    /\ record_payroll_batch(storage, {stored_owner}, timestamp, b, MaxStaffCount).result
         = Ok
\* C16: the boolean and count queries never fail, before initialize as well:
\* is_staff_active(H) returns false for a hash never registered and the
\* stored record's is_active otherwise (the record is there); with no owner
\* stored is_staff_registered and is_batch_recorded return false and both
\* totals are 0.  (The queries write nothing: as in the source, they are
\* functions of the storage only.)
C16_QueriesNeverFail ==
  /\ \A h \in Hashes :
       /\ is_staff_active(storage, h).result = Ok
       /\ IF is_some(first_staff[h])
          THEN /\ is_some(storage.StaffRecord[h])
               /\ is_staff_active(storage, h)
                    = Returns(unwrap(storage.StaffRecord[h]).is_active)
          ELSE is_staff_active(storage, h) = Returns(FALSE)
       /\ is_staff_registered(storage, h) \in BOOLEAN
       /\ is_batch_recorded(storage, h) \in BOOLEAN
  /\ get_total_staff(storage) \in Nat
  /\ get_total_batches(storage) \in Nat
  /\ ~is_some(storage.Owner) =>
       /\ \A h \in Hashes :
            /\ ~is_staff_registered(storage, h)
            /\ ~is_batch_recorded(storage, h)
            /\ is_staff_active(storage, h) = Returns(FALSE)
       /\ get_total_staff(storage) = 0
       /\ get_total_batches(storage) = 0

\* C16 witness: is_staff_active answers true for an active hash, false for a
\* revoked one and false for a hash never registered.
C16_Witness ==
  \E h \in Hashes, g \in Hashes, k \in Hashes :
    /\ is_some(first_staff[h]) /\ is_staff_active(storage, h) = Returns(TRUE)
    /\ g \in revoked /\ is_staff_active(storage, g) = Returns(FALSE)
    /\ ~is_some(first_staff[k]) /\ is_staff_active(storage, k) = Returns(FALSE)
    /\ get_total_staff(storage) = 2

\* No hash occurs twice in the list.
NoDuplicates(seq) ==
  \A i \in 1..Len(seq), j \in 1..Len(seq) : i # j => seq[i] # seq[j]

\* C17: no hash occurs twice in allStaffHashes or in allBatchHashes, and a
\* flag that is true stays true: no invocation clears it, and every hash
\* whose create once succeeded is flagged.
C17_NoDuplicatesFlagsStay ==
  /\ NoDuplicates(unwrap_or(storage.AllStaffHashes, <<>>))
  /\ NoDuplicates(unwrap_or(storage.AllBatchHashes, <<>>))
  /\ \A h \in Hashes :
       /\ is_some(first_staff[h]) => is_staff_registered(storage, h)
       /\ is_some(first_batch[h]) => is_batch_recorded(storage, h)
  /\ \A c \in Invocations, h \in Hashes :
       /\ is_staff_registered(storage, h) => is_staff_registered(c.out.storage, h)
       /\ is_batch_recorded(storage, h) => is_batch_recorded(c.out.storage, h)

\* C17 witness: both lists hold two hashes, one staff hash has been revoked
\* and the owner has changed since the first registration; a further create
\* of a listed hash is turned away.
C17_Witness ==
  /\ get_total_staff(storage) = 2
  /\ get_total_batches(storage) = 2
  /\ revoked # {}
  /\ \E h \in Hashes :
       /\ is_some(first_staff[h])
       /\ unwrap(first_staff[h]).registered_by # stored_owner
       /\ register_staff(storage, {stored_owner}, timestamp, h).result
            = AlreadyRegistered
       /\ record_payroll_batch(storage, {stored_owner}, timestamp, h, 1).result
            = AlreadyRecorded

\* s is an initial part of t.
IsPrefix(s, t) == Len(s) <= Len(t) /\ SubSeq(t, 1, Len(s)) = s

\* C18: both lists are append-only and in registration order: over every
\* invocation the old list is a prefix of the new one; a successful
\* register_staff(H) (record_payroll_batch(H, n)) appends exactly H to its
\* list and nothing else changes either list; the hashes are listed in the
\* order of their registration timestamps.
C18_AppendOnlyLists ==
  /\ \A c \in Invocations :
       LET staff == unwrap_or(storage.AllStaffHashes, <<>>)
           staff2 == unwrap_or(c.out.storage.AllStaffHashes, <<>>)
           batches == unwrap_or(storage.AllBatchHashes, <<>>)
           batches2 == unwrap_or(c.out.storage.AllBatchHashes, <<>>)
       IN /\ IsPrefix(staff, staff2)
          /\ IsPrefix(batches, batches2)
          /\ staff2 = IF c.op = "register_staff" /\ c.out.result = Ok
                      THEN Append(staff, c.hash) ELSE staff
          /\ batches2 = IF c.op = "record_payroll_batch" /\ c.out.result = Ok
                        THEN Append(batches, c.hash) ELSE batches
  /\ LET staff == unwrap_or(storage.AllStaffHashes, <<>>)
         batches == unwrap_or(storage.AllBatchHashes, <<>>)
     IN /\ \A i \in 1..Len(staff), j \in 1..Len(staff) :
             i < j => unwrap(first_staff[staff[i]]).registered_at
                        <= unwrap(first_staff[staff[j]]).registered_at
        /\ \A i \in 1..Len(batches), j \in 1..Len(batches) :
             i < j => unwrap(first_batch[batches[i]]).timestamp
                        <= unwrap(first_batch[batches[j]]).timestamp

\* C18 witness: each list holds a hash created at an earlier ledger timestamp
\* followed by one created later, and a revocation has been made.
C18_Witness ==
  LET staff == unwrap_or(storage.AllStaffHashes, <<>>)
      batches == unwrap_or(storage.AllBatchHashes, <<>>)
  IN /\ Len(staff) = 2
     /\ Len(batches) = 2
     /\ unwrap(first_staff[staff[1]]).registered_at
          < unwrap(first_staff[staff[2]]).registered_at
     /\ unwrap(first_batch[batches[1]]).timestamp
          < unwrap(first_batch[batches[2]]).timestamp
     /\ staff[1] > staff[2]
     /\ revoked # {}

\* C19: the error reported is the first in the order of the checks:
\* register_staff NotInitialized, Unauthorized, AlreadyRegistered,
\* InvalidHash; record_payroll_batch NotInitialized, Unauthorized,
\* AlreadyRecorded, InvalidHash, InvalidStaffCount; revoke_staff
\* NotInitialized, Unauthorized, NotFound; initialize AlreadyInitialized
\* before authorization.
C19_ErrorPrecedence ==
  \A auth \in AuthSets :
    LET uninitialized == owner(storage).result = NotInitialized
        unauthorized == ~uninitialized /\ ~require_auth(stored_owner, auth)
    IN
    /\ \A ts \in Times, h \in Hashes :
         register_staff(storage, auth, ts, h).result =
           IF uninitialized THEN NotInitialized
           ELSE IF unauthorized THEN Unauthorized
           ELSE IF is_staff_registered(storage, h) THEN AlreadyRegistered
           ELSE IF h = zero_hash THEN InvalidHash
           ELSE Ok
    /\ \A ts \in Times, h \in Hashes, n \in StaffCounts :
         record_payroll_batch(storage, auth, ts, h, n).result =
           IF uninitialized THEN NotInitialized
           ELSE IF unauthorized THEN Unauthorized
           ELSE IF is_batch_recorded(storage, h) THEN AlreadyRecorded
           ELSE IF h = zero_hash THEN InvalidHash
           ELSE IF n = 0 THEN InvalidStaffCount
           ELSE Ok
    /\ \A h \in Hashes :
         revoke_staff(storage, auth, h).result =
           IF uninitialized THEN NotInitialized
           ELSE IF unauthorized THEN Unauthorized
           ELSE IF ~is_staff_registered(storage, h) THEN NotFound
           ELSE Ok
    /\ \A a \in Addresses :
         initialize(storage, auth, a).result =
           IF ~uninitialized THEN AlreadyInitialized
           ELSE IF ~require_auth(a, auth) THEN Unauthorized
           ELSE Ok

\* C19 witness: on a registry with a registered staff hash and a recorded
\* batch several failure conditions hold at once: a recorded hash with
\* staff_count 0, the zero hash with staff_count 0, a registered hash and an
\* unknown hash without the owner's authorization, and an unauthorized
\* initialize.
C19_Witness ==
  \E h \in Hashes, b \in Hashes, k \in Hashes \ {zero_hash} :
    /\ is_staff_registered(storage, h)
    /\ is_batch_recorded(storage, b)
    /\ ~is_staff_registered(storage, k)
    /\ record_payroll_batch(storage, {stored_owner}, timestamp, b, 0).result
         = AlreadyRecorded
    /\ record_payroll_batch(storage, {stored_owner}, timestamp, zero_hash, 0).result
         = InvalidHash
    /\ register_staff(storage, {}, timestamp, h).result = Unauthorized
    /\ revoke_staff(storage, {}, k).result = Unauthorized
    /\ initialize(storage, {}, stored_owner).result = AlreadyInitialized

\* C20: an owner-authorized revoke_staff(H) on a registered, already inactive
\* H succeeds and leaves the whole storage as it was; an owner-authorized
\* revoke_staff(H) fails with NotFound exactly when H is not registered.
C20_RevokeIdempotent ==
  is_some(storage.Owner) =>
    \A auth \in AuthSets, h \in Hashes :
      require_auth(stored_owner, auth) =>
        LET out == revoke_staff(storage, auth, h) IN
        /\ out.result = NotFound <=> ~is_staff_registered(storage, h)
        /\ StaffState(storage, h) = "Inactive" => out = Outcome(Ok, storage)
        /\ is_staff_registered(storage, h) => out.result = Ok

\* C20 witness: a revoked hash which the owner revokes once more, and a
\* non-zero hash never registered whose revocation reports NotFound.
C20_Witness ==
  \E h \in revoked, k \in Hashes \ {zero_hash} :
    /\ StaffState(storage, h) = "Inactive"
    /\ revoke_staff(storage, {stored_owner}, h) = Outcome(Ok, storage)
    /\ revoke_staff(storage, {stored_owner}, k).result = NotFound

====
